---------------------------- MODULE Spec2Model ----------------------------
(***************************************************************************)
(* Credit approval system (loans/utils.py, loans/views.py,                 *)
(* loans/tasks.py, loans/management/commands/ingest_data.py).              *)
(*                                                                         *)
(* Modelling conventions                                                   *)
(*  - Money is an integer number of cents (the DecimalField columns keep   *)
(*    2 fractional digits).  A value that is not quantized to cents (the   *)
(*    straight-line installment principal / tenure) is an exact rational   *)
(*    <<numerator, denominator>> of cents.                                 *)
(*  - Decimal and float arithmetic is modelled by exact rational           *)
(*    arithmetic; round(x, 2) on a Decimal is round-half-even to a cent.   *)
(*    Binary floating-point representation error is not modelled, and the  *)
(*    input domains below contain no principal whose installment is an     *)
(*    exact half cent (there the 28-digit Decimal context, not the         *)
(*    rounding rule, decides the last digit).                              *)
(*  - Where the amortizing formula leaves the range of a machine integer   *)
(*    (a principal of 100,000.00 over 12 months) the same exact arithmetic *)
(*    is carried out on wide numbers, sequences of base-1000 digits.       *)
(*  - Interest rates are whole percents.                                   *)
(*  - A date is a month ordinal: relativedelta(months = n) adds n, and     *)
(*    the calendar year of date d is d \div MonthsPerYear.                 *)
(*  - The database is the pair (customers, loans); the pure functions of   *)
(*    utils.py take it as explicit arguments so that they can be applied   *)
(*    to the stored state as well as to a request's stale snapshot.        *)
(*  - A customer row written by ingest_customer_data also holds its        *)
(*    phone_number, the unique column on which an ingestion can fail;      *)
(*    each ingestion task commits its whole sheet in one step, as its      *)
(*    transaction does, and calculate_current_debt saves one customer per  *)
(*    step.                                                                *)
(***************************************************************************)
EXTENDS Integers, FiniteSets, Sequences, TLC

VARIABLES customers,   \* customer_id -> [monthly_salary, approved_limit, current_debt]
          loans,       \* loan_id -> Loan row
          today,       \* date.today()
          nextLoanId,  \* next value of the loans.loan_id sequence
          resp,        \* the last call and what it returned
          pc,          \* position of each concurrent create_loan request,
                       \* or of each background task
          req          \* locals of each concurrent create_loan request,
                       \* or the sheet and the locals of each background task

vars == <<customers, loans, today, nextLoanId, resp, pc, req>>

----------------------------------------------------------------------------
(* Bounds of the model *)

MaxLoans == 2          \* loans a behaviour may create through create_loan
MaxTicks == 1          \* times the date changes in a behaviour
NumProcs == 2          \* concurrent create_loan requests
MaxCustomers == 3      \* customer rows a behaviour may hold
MaxHistory == 11       \* loans in the history of a scored customer
MaxRecent == 7         \* loans of that history taken in the current year

(* Program constants *)

MonthsPerYear == 12
DefaultScore == 50
OnTimeMax == 35
VolumeMax == 35
MonthlyRateDivisor == 1200
LimitFactor == 36
Lakh == 100000
CentsPerUnit == 100

(* Input domains *)

FirstDay == MonthsPerYear          \* the clock starts in the first month of a year
MaxToday == FirstDay + MaxTicks    \* last date the clock reaches
RequestIds == {1, 2, 3}            \* ids named by calls; no customer has id 3
Applicants == {1, 3}               \* ids named by create_loan requests
Amounts == {0, 30, 70}             \* principal asked of the decision, cents
LoanAmounts == {30, 70}            \* principal asked of create_loan, cents
Rates == {0, 10, 20}               \* requested annual rate, percent
Tenures == {1, 2}                     \* requested tenure, months
LoanTenures == {1, 2, 3}              \* tenure of a create_loan request, months
InstallmentPrincipals == {1, 30, 70}  \* principal of a direct installment call, cents
Salaries == {0, 100}               \* monthly salary, cents
Limits == {0, 50}                  \* approved limit, cents
Procs == 1..NumProcs
Incomes == {0, 1, 277777, 277778, 1500000, 5000000}   \* monthly_income at registration, cents
ScoreValues == {<<0, 1>>, <<10, 1>>, <<21, 2>>, <<30, 1>>, <<61, 2>>,
                <<50, 1>>, <<101, 2>>, <<100, 1>>}    \* credit scores
RateValues == {0, 7, 8, 9, 12, 13, 16, 17, 20}        \* requested annual rate, percent
\* <<loan_amount, interest_rate, tenure>> of the requests made after a registration
CalcRequests == {<<10000000, 10, 12>>, <<10000000, 13, 12>>, <<30, 10, 1>>, <<50, 20, 1>>,
                 <<70, 0, 2>>}
NoLoan == 0                        \* loan_id = None

----------------------------------------------------------------------------
(* Exact arithmetic *)

Min(a, b) == IF a <= b THEN a ELSE b
Max(a, b) == IF a >= b THEN a ELSE b

RECURSIVE GCD(_, _)
GCD(a, b) == IF b = 0 THEN a ELSE GCD(b, a % b)

\* the rational n / d (n >= 0, d > 0) in lowest terms
Rat(n, d) == LET g == GCD(n, d) IN <<n \div g, d \div g>>

RatInt(n) == <<n, 1>>
RatAdd(x, y) == Rat(x[1] * y[2] + y[1] * x[2], x[2] * y[2])
RatSub(x, y) == Rat(x[1] * y[2] - y[1] * x[2], x[2] * y[2])
RatMul(x, y) ==
    LET g1 == GCD(x[1], y[2])
        g2 == GCD(y[1], x[2])
    IN  IF x[1] = 0 \/ y[1] = 0 THEN <<0, 1>>
        ELSE <<(x[1] \div g1) * (y[1] \div g2), (x[2] \div g2) * (y[2] \div g1)>>
RatDiv(x, y) == RatMul(x, <<y[2], y[1]>>)
RatLT(x, y) == x[1] * y[2] < y[1] * x[2]
RatLE(x, y) == x[1] * y[2] <= y[1] * x[2]
RatMin(x, y) == IF RatLE(x, y) THEN x ELSE y
RatMax(x, y) == IF RatLE(x, y) THEN y ELSE x

RECURSIVE RatPow(_, _)
RatPow(x, n) == IF n = 0 THEN <<1, 1>> ELSE RatMul(x, RatPow(x, n - 1))

\* Decimal quantize under the default context: ROUND_HALF_EVEN
RoundHalfEven(x) ==
    LET q == x[1] \div x[2]
        r == x[1] % x[2]
    IN  IF 2 * r < x[2] THEN q
        ELSE IF 2 * r > x[2] THEN q + 1
        ELSE IF q % 2 = 0 THEN q ELSE q + 1

----------------------------------------------------------------------------
(* Decimal values beyond the range of a machine integer: a natural number  *)
(* as the sequence of its base-BigBase digits, least significant first,    *)
(* without leading zeros (0 is the empty sequence).                        *)

BigBase == 1000

RECURSIVE BigFromInt(_)
BigFromInt(n) ==
    IF n = 0 THEN <<>> ELSE <<n % BigBase>> \o BigFromInt(n \div BigBase)

RECURSIVE BigTrim(_)
BigTrim(a) ==
    IF a = <<>> \/ a[Len(a)] # 0 THEN a ELSE BigTrim(SubSeq(a, 1, Len(a) - 1))

BigDigit(a, i) == IF i <= Len(a) THEN a[i] ELSE 0

RECURSIVE BigAddFrom(_, _, _, _)
BigAddFrom(a, b, i, carry) ==
    IF i > Len(a) /\ i > Len(b) THEN BigFromInt(carry)
    ELSE LET s == BigDigit(a, i) + BigDigit(b, i) + carry
         IN  <<s % BigBase>> \o BigAddFrom(a, b, i + 1, s \div BigBase)

BigAdd(a, b) == BigAddFrom(a, b, 1, 0)

\* a - b for a >= b
RECURSIVE BigSubFrom(_, _, _, _)
BigSubFrom(a, b, i, borrow) ==
    IF i > Len(a) THEN <<>>
    ELSE LET d == a[i] - BigDigit(b, i) - borrow
         IN  <<IF d < 0 THEN d + BigBase ELSE d>> \o
             BigSubFrom(a, b, i + 1, IF d < 0 THEN 1 ELSE 0)

BigSub(a, b) == BigTrim(BigSubFrom(a, b, 1, 0))

\* a * k for a machine integer 0 <= k < BigBase
RECURSIVE BigMulDigitFrom(_, _, _, _)
BigMulDigitFrom(a, k, i, carry) ==
    IF i > Len(a) THEN BigFromInt(carry)
    ELSE LET s == a[i] * k + carry
         IN  <<s % BigBase>> \o BigMulDigitFrom(a, k, i + 1, s \div BigBase)

BigMulDigit(a, k) == IF k = 0 THEN <<>> ELSE BigMulDigitFrom(a, k, 1, 0)

BigShift(a) == IF a = <<>> THEN <<>> ELSE <<0>> \o a

RECURSIVE BigMul(_, _)
BigMul(a, b) ==
    IF b = <<>> THEN <<>>
    ELSE BigAdd(BigMulDigit(a, b[1]), BigShift(BigMul(a, Tail(b))))

RECURSIVE BigPow(_, _)
BigPow(a, n) == IF n = 0 THEN <<1>> ELSE BigMul(a, BigPow(a, n - 1))

RECURSIVE BigLessFrom(_, _, _)
BigLessFrom(a, b, i) ==
    IF i = 0 THEN FALSE
    ELSE IF a[i] # b[i] THEN a[i] < b[i]
    ELSE BigLessFrom(a, b, i - 1)

BigLess(a, b) ==
    IF Len(a) # Len(b) THEN Len(a) < Len(b) ELSE BigLessFrom(a, b, Len(a))

\* the largest k in lo..hi-1 with k * d <= r, given lo * d <= r < hi * d
RECURSIVE BigDigitIn(_, _, _, _)
BigDigitIn(r, d, lo, hi) ==
    IF hi - lo = 1 THEN lo
    ELSE LET mid == (lo + hi) \div 2
         IN  IF BigLess(r, BigMulDigit(d, mid))
             THEN BigDigitIn(r, d, lo, mid)
             ELSE BigDigitIn(r, d, mid, hi)

\* long division of the digits n[1..i] still to come, most significant
\* first: <<quotient, remainder>> of n by d > 0, the quotient a machine integer
RECURSIVE BigDivFrom(_, _, _, _, _)
BigDivFrom(n, d, i, q, r) ==
    IF i = 0 THEN <<q, r>>
    ELSE LET r1 == BigTrim(<<n[i]>> \o r)
             k == IF BigLess(r1, d) THEN 0 ELSE BigDigitIn(r1, d, 1, BigBase)
         IN  BigDivFrom(n, d, i - 1, q * BigBase + k, BigSub(r1, BigMulDigit(d, k)))

\* n / d (d > 0) rounded half-even to a machine integer
BigRoundHalfEven(n, d) ==
    LET qr == BigDivFrom(n, d, Len(n), 0, <<>>)
        q == qr[1]
        twice == BigMulDigit(qr[2], 2)
    IN  IF BigLess(twice, d) THEN q
        ELSE IF BigLess(d, twice) THEN q + 1
        ELSE IF q % 2 = 0 THEN q ELSE q + 1

\* The amortizing formula on wide numbers, with monthly_rate = a / b in
\* lowest terms and n the tenure, is computed as one quotient:
\*   P * (a/b) * ((a+b)/b)^n / (((a+b)/b)^n - 1)
\*     = P * a * (a+b)^n / (b * ((a+b)^n - b^n))

----------------------------------------------------------------------------
(* loans/utils.py *)

\* the filter with end_date__gt: a loan stops counting on its last day
IsActive_strict(loan, now) == loan.end_date > now

\* customer.loans.filter(end_date__gte = date.today())
IsActive(loan, now) == loan.end_date >= now

LoansOf(L, cid) == {l \in DOMAIN L : L[l].customer = cid}
ActiveLoansOf(L, cid, now) == {l \in LoansOf(L, cid) : IsActive(L[l], now)}

RECURSIVE SumField(_, _, _)
SumField(L, ids, field) ==
    IF ids = {} THEN 0
    ELSE LET l == CHOOSE x \in ids : TRUE
         IN  L[l][field] + SumField(L, ids \ {l}, field)

\* Component 1: past loans paid on time
OnTimePoints(emis_paid_on_time, total_emis) ==
    IF total_emis > 0
    THEN RatMin(RatInt(OnTimeMax), Rat(OnTimeMax * emis_paid_on_time, total_emis))
    ELSE RatInt(0)

\* the loan-count table with < for <=: a boundary count gets the lower points
LoanCountPoints_strict(num_loans) ==
    IF num_loans < 2 THEN 15
    ELSE IF num_loans < 5 THEN 10
    ELSE IF num_loans < 10 THEN 5
    ELSE 0

\* Component 2: number of loans taken
LoanCountPoints(num_loans) ==
    IF num_loans <= 2 THEN 15
    ELSE IF num_loans <= 5 THEN 10
    ELSE IF num_loans <= 10 THEN 5
    ELSE 0

\* Component 3: loans started in the current year
CurrentYearPoints(n) ==
    IF n <= 2 THEN 15
    ELSE IF n <= 4 THEN 10
    ELSE IF n <= 6 THEN 5
    ELSE 0

\* Component 4: approved volume
VolumePoints(total_loan_volume, approved_limit) ==
    IF approved_limit > 0
    THEN LET volume_ratio == RatMin(RatInt(1), Rat(total_loan_volume, approved_limit))
             points == RatMul(RatInt(VolumeMax), volume_ratio)
         IN  IF RatLE(RatInt(VolumeMax), points) THEN RatInt(0)
             ELSE RatSub(RatInt(VolumeMax), points)
    ELSE RatInt(0)

ClampScore(score) == RatMin(RatInt(100), RatMax(RatInt(0), score))

\* the score with the overexposure gate written >= instead of >
calculate_credit_score_gate_ge(C, L, now, customer_id) ==
    IF customer_id \notin DOMAIN C THEN RatInt(0)
    ELSE
    LET customer == C[customer_id]
        current_loans_sum == SumField(L, ActiveLoansOf(L, customer_id, now), "loan_amount")
        mine == LoansOf(L, customer_id)
        current_year == now \div MonthsPerYear
        current_year_loans ==
            {l \in mine : L[l].start_date \div MonthsPerYear = current_year}
    IN  IF current_loans_sum >= customer.approved_limit THEN RatInt(0)
        ELSE IF mine = {} THEN RatInt(DefaultScore)
        ELSE ClampScore(
               RatAdd(OnTimePoints(SumField(L, mine, "emis_paid_on_time"),
                                   SumField(L, mine, "tenure")),
               RatAdd(RatInt(LoanCountPoints(Cardinality(mine))),
               RatAdd(RatInt(CurrentYearPoints(Cardinality(current_year_loans))),
                      VolumePoints(SumField(L, mine, "loan_amount"),
                                   customer.approved_limit)))))

\* the score returned as the plain sum of the components, the on-time
\* ratio not capped at OnTimeMax and the total not clamped
calculate_credit_score_unclamped(C, L, now, customer_id) ==
    IF customer_id \notin DOMAIN C THEN RatInt(0)
    ELSE
    LET customer == C[customer_id]
        current_loans_sum == SumField(L, ActiveLoansOf(L, customer_id, now), "loan_amount")
        mine == LoansOf(L, customer_id)
        current_year == now \div MonthsPerYear
        current_year_loans ==
            {l \in mine : L[l].start_date \div MonthsPerYear = current_year}
        total_emis == SumField(L, mine, "tenure")
    IN  IF current_loans_sum > customer.approved_limit THEN RatInt(0)
        ELSE IF mine = {} THEN RatInt(DefaultScore)
        ELSE RatAdd(IF total_emis > 0
                    THEN Rat(OnTimeMax * SumField(L, mine, "emis_paid_on_time"), total_emis)
                    ELSE RatInt(0),
             RatAdd(RatInt(LoanCountPoints(Cardinality(mine))),
             RatAdd(RatInt(CurrentYearPoints(Cardinality(current_year_loans))),
                    VolumePoints(SumField(L, mine, "loan_amount"),
                                 customer.approved_limit))))

\* the score without the default for a customer with no loans
calculate_credit_score_no_default(C, L, now, customer_id) ==
    IF customer_id \notin DOMAIN C THEN RatInt(0)
    ELSE
    LET customer == C[customer_id]
        current_loans_sum == SumField(L, ActiveLoansOf(L, customer_id, now), "loan_amount")
        mine == LoansOf(L, customer_id)
        current_year == now \div MonthsPerYear
        current_year_loans ==
            {l \in mine : L[l].start_date \div MonthsPerYear = current_year}
    IN  IF current_loans_sum > customer.approved_limit THEN RatInt(0)
        ELSE ClampScore(
               RatAdd(OnTimePoints(SumField(L, mine, "emis_paid_on_time"),
                                   SumField(L, mine, "tenure")),
               RatAdd(RatInt(LoanCountPoints(Cardinality(mine))),
               RatAdd(RatInt(CurrentYearPoints(Cardinality(current_year_loans))),
                      VolumePoints(SumField(L, mine, "loan_amount"),
                                   customer.approved_limit)))))

\* the score with the gate reading the stored current_debt instead of the
\* principal of the active loans
calculate_credit_score_debt_gate(C, L, now, customer_id) ==
    IF customer_id \notin DOMAIN C THEN RatInt(0)
    ELSE
    LET customer == C[customer_id]
        current_loans_sum == SumField(L, ActiveLoansOf(L, customer_id, now), "loan_amount")
        mine == LoansOf(L, customer_id)
        current_year == now \div MonthsPerYear
        current_year_loans ==
            {l \in mine : L[l].start_date \div MonthsPerYear = current_year}
    IN  IF customer.current_debt > customer.approved_limit THEN RatInt(0)
        ELSE IF mine = {} THEN RatInt(DefaultScore)
        ELSE ClampScore(
               RatAdd(OnTimePoints(SumField(L, mine, "emis_paid_on_time"),
                                   SumField(L, mine, "tenure")),
               RatAdd(RatInt(LoanCountPoints(Cardinality(mine))),
               RatAdd(RatInt(CurrentYearPoints(Cardinality(current_year_loans))),
                      VolumePoints(SumField(L, mine, "loan_amount"),
                                   customer.approved_limit)))))

calculate_credit_score(C, L, now, customer_id) ==
    IF customer_id \notin DOMAIN C THEN RatInt(0)
    ELSE
    LET customer == C[customer_id]
        current_loans_sum == SumField(L, ActiveLoansOf(L, customer_id, now), "loan_amount")
        mine == LoansOf(L, customer_id)
        current_year == now \div MonthsPerYear
        current_year_loans ==
            {l \in mine : L[l].start_date \div MonthsPerYear = current_year}
    IN  IF current_loans_sum > customer.approved_limit THEN RatInt(0)
        ELSE IF mine = {} THEN RatInt(DefaultScore)
        ELSE ClampScore(
               RatAdd(OnTimePoints(SumField(L, mine, "emis_paid_on_time"),
                                   SumField(L, mine, "tenure")),
               RatAdd(RatInt(LoanCountPoints(Cardinality(mine))),
               RatAdd(RatInt(CurrentYearPoints(Cardinality(current_year_loans))),
                      VolumePoints(SumField(L, mine, "loan_amount"),
                                   customer.approved_limit)))))

\* the inputs for which every intermediate value of the amortizing formula,
\* held as a rational in lowest terms, fits a machine integer
FitsMachineInt(principal, annual_interest_rate, tenure_months) ==
    principal <= 100 /\ annual_interest_rate <= 20 /\ tenure_months <= 3

\* Decimal arithmetic is exact here on both branches: rationals where they
\* fit a machine integer, wide numbers otherwise
calculate_monthly_installment(principal, annual_interest_rate, tenure_months) ==
    IF annual_interest_rate = 0 THEN Rat(principal, tenure_months)
    ELSE IF FitsMachineInt(principal, annual_interest_rate, tenure_months) THEN
    LET monthly_rate == Rat(annual_interest_rate, MonthlyRateDivisor)
        growth == RatPow(RatAdd(RatInt(1), monthly_rate), tenure_months)
        numerator == RatMul(RatMul(RatInt(principal), monthly_rate), growth)
        denominator == RatSub(growth, RatInt(1))
    IN  IF denominator[1] = 0 THEN Rat(principal, tenure_months)
        ELSE RatInt(RoundHalfEven(RatDiv(numerator, denominator)))
    ELSE
    LET monthly_rate == Rat(annual_interest_rate, MonthlyRateDivisor)
        rate_num == BigFromInt(monthly_rate[1])
        rate_den == BigFromInt(monthly_rate[2])
        growth == BigPow(BigAdd(rate_num, rate_den), tenure_months)
        numerator == BigMul(BigMul(BigFromInt(principal), rate_num), growth)
        denominator == BigMul(rate_den, BigSub(growth, BigPow(rate_den, tenure_months)))
    IN  IF denominator = <<>> THEN Rat(principal, tenure_months)
        ELSE RatInt(BigRoundHalfEven(numerator, denominator))

\* the best band given the floor of the second one
get_corrected_interest_rate_top12(credit_score, requested_rate) ==
    IF RatLT(RatInt(50), credit_score) THEN Max(requested_rate, 12)
    ELSE IF RatLT(RatInt(30), credit_score) THEN Max(requested_rate, 12)
    ELSE IF RatLT(RatInt(10), credit_score) THEN Max(requested_rate, 16)
    ELSE requested_rate

\* the bands written with >= : a score on a boundary gets the lower floor
get_corrected_interest_rate_ge(credit_score, requested_rate) ==
    IF RatLE(RatInt(50), credit_score) THEN Max(requested_rate, 8)
    ELSE IF RatLE(RatInt(30), credit_score) THEN Max(requested_rate, 12)
    ELSE IF RatLE(RatInt(10), credit_score) THEN Max(requested_rate, 16)
    ELSE requested_rate

get_corrected_interest_rate(credit_score, requested_rate) ==
    IF RatLT(RatInt(50), credit_score) THEN Max(requested_rate, 8)
    ELSE IF RatLT(RatInt(30), credit_score) THEN Max(requested_rate, 12)
    ELSE IF RatLT(RatInt(10), credit_score) THEN Max(requested_rate, 16)
    ELSE requested_rate

\* the decision with the limit check placed before the EMI check
check_loan_eligibility_limit_first(C, L, now, customer_id, loan_amount, interest_rate, tenure) ==
    IF customer_id \notin DOMAIN C
    THEN [approved |-> FALSE, rate |-> interest_rate, installment |-> RatInt(0),
          message |-> "Customer not found"]
    ELSE
    LET customer == C[customer_id]
        credit_score == calculate_credit_score(C, L, now, customer_id)
        corrected_rate == get_corrected_interest_rate(credit_score, interest_rate)
        monthly_installment ==
            calculate_monthly_installment(loan_amount, corrected_rate, tenure)
        current_emis ==
            SumField(L, ActiveLoansOf(L, customer_id, now), "monthly_repayment")
        total_emis == RatAdd(RatInt(current_emis), monthly_installment)
        Result(ok, msg) == [approved |-> ok, rate |-> corrected_rate,
                            installment |-> monthly_installment, message |-> msg]
    IN  IF RatLE(credit_score, RatInt(10))
        THEN Result(FALSE, "Credit score too low")
        ELSE IF loan_amount > customer.approved_limit
        THEN Result(FALSE, "Loan amount exceeds approved limit")
        ELSE IF RatLT(Rat(customer.monthly_salary, 2), total_emis)
        THEN Result(FALSE, "EMIs exceed 50% of monthly salary")
        ELSE Result(TRUE, "Loan approved")

\* the check without its last test: the amount is never compared with the limit
check_loan_eligibility_no_limit(C, L, now, customer_id, loan_amount, interest_rate, tenure) ==
    IF customer_id \notin DOMAIN C
    THEN [approved |-> FALSE, rate |-> interest_rate, installment |-> RatInt(0),
          message |-> "Customer not found"]
    ELSE
    LET customer == C[customer_id]
        credit_score == calculate_credit_score(C, L, now, customer_id)
        corrected_rate == get_corrected_interest_rate(credit_score, interest_rate)
        monthly_installment ==
            calculate_monthly_installment(loan_amount, corrected_rate, tenure)
        current_emis ==
            SumField(L, ActiveLoansOf(L, customer_id, now), "monthly_repayment")
        total_emis == RatAdd(RatInt(current_emis), monthly_installment)
        Result(ok, msg) == [approved |-> ok, rate |-> corrected_rate,
                            installment |-> monthly_installment, message |-> msg]
    IN  IF RatLE(credit_score, RatInt(10))
        THEN Result(FALSE, "Credit score too low")
        ELSE IF RatLT(Rat(customer.monthly_salary, 2), total_emis)
        THEN Result(FALSE, "EMIs exceed 50% of monthly salary")
        ELSE Result(TRUE, "Loan approved")

\* the EMI test on the new installment alone: current_emis left out
check_loan_eligibility_new_emi_only(C, L, now, customer_id, loan_amount, interest_rate, tenure) ==
    IF customer_id \notin DOMAIN C
    THEN [approved |-> FALSE, rate |-> interest_rate, installment |-> RatInt(0),
          message |-> "Customer not found"]
    ELSE
    LET customer == C[customer_id]
        credit_score == calculate_credit_score(C, L, now, customer_id)
        corrected_rate == get_corrected_interest_rate(credit_score, interest_rate)
        monthly_installment ==
            calculate_monthly_installment(loan_amount, corrected_rate, tenure)
        Result(ok, msg) == [approved |-> ok, rate |-> corrected_rate,
                            installment |-> monthly_installment, message |-> msg]
    IN  IF RatLE(credit_score, RatInt(10))
        THEN Result(FALSE, "Credit score too low")
        ELSE IF RatLT(Rat(customer.monthly_salary, 2), monthly_installment)
        THEN Result(FALSE, "EMIs exceed 50% of monthly salary")
        ELSE IF loan_amount > customer.approved_limit
        THEN Result(FALSE, "Loan amount exceeds approved limit")
        ELSE Result(TRUE, "Loan approved")

check_loan_eligibility(C, L, now, customer_id, loan_amount, interest_rate, tenure) ==
    IF customer_id \notin DOMAIN C
    THEN [approved |-> FALSE, rate |-> interest_rate, installment |-> RatInt(0),
          message |-> "Customer not found"]
    ELSE
    LET customer == C[customer_id]
        credit_score == calculate_credit_score(C, L, now, customer_id)
        corrected_rate == get_corrected_interest_rate(credit_score, interest_rate)
        monthly_installment ==
            calculate_monthly_installment(loan_amount, corrected_rate, tenure)
        current_emis ==
            SumField(L, ActiveLoansOf(L, customer_id, now), "monthly_repayment")
        total_emis == RatAdd(RatInt(current_emis), monthly_installment)
        Result(ok, msg) == [approved |-> ok, rate |-> corrected_rate,
                            installment |-> monthly_installment, message |-> msg]
    IN  IF RatLE(credit_score, RatInt(10))
        THEN Result(FALSE, "Credit score too low")
        ELSE IF RatLT(Rat(customer.monthly_salary, 2), total_emis)
        THEN Result(FALSE, "EMIs exceed 50% of monthly salary")
        ELSE IF loan_amount > customer.approved_limit
        THEN Result(FALSE, "Loan amount exceeds approved limit")
        ELSE Result(TRUE, "Loan approved")

----------------------------------------------------------------------------
(* Stored rows *)

Customer(salary, limit, debt) ==
    [monthly_salary |-> salary, approved_limit |-> limit, current_debt |-> debt]

Loan(cid, amount, tenure, rate, repayment, emis, start, end) ==
    [customer |-> cid, loan_amount |-> amount, tenure |-> tenure,
     interest_rate |-> rate, monthly_repayment |-> repayment,
     emis_paid_on_time |-> emis, start_date |-> start, end_date |-> end]

\* Loan rows that exist before the first request (ingested history of
\* customer 1): a repaid loan that ended last year, a large loan whose last
\* day is FirstDay, and a running loan with more on-time EMIs than tenure.
HistoryRows ==
    (1001 :> Loan(1, 30, 2, 10, 15, 2, FirstDay - 3, FirstDay - 1)) @@
    (1002 :> Loan(1, 60, 2, 10, 30, 0, FirstDay - 2, FirstDay)) @@
    (1003 :> Loan(1, 30, 1, 12, 40, 3, FirstDay, FirstDay + 1))

Restrict(f, S) == [x \in S |-> f[x]]

NoResp == [op |-> "none"]
NoReq == [op |-> "none"]

----------------------------------------------------------------------------
(* Calls of the pure functions *)

\* calculate_credit_score(customer_id)
Score(cid) ==
    /\ resp' = [op |-> "calculate_credit_score", customer_id |-> cid, date |-> today,
                score |-> calculate_credit_score(customers, loans, today, cid)]
    /\ UNCHANGED <<customers, loans, today, nextLoanId, pc, req>>

\* check_loan_eligibility(customer_id, loan_amount, interest_rate, tenure)
Decide(cid, amount, rate, tenure) ==
    \E d \in {check_loan_eligibility(customers, loans, today, cid, amount, rate, tenure)} :
        /\ resp' = [op |-> "check_loan_eligibility", customer_id |-> cid,
                    loan_amount |-> amount, interest_rate |-> rate,
                    tenure |-> tenure, date |-> today, approved |-> d.approved,
                    rate |-> d.rate, installment |-> d.installment,
                    message |-> d.message]
        /\ UNCHANGED <<customers, loans, today, nextLoanId, pc, req>>

\* calculate_monthly_installment(principal, annual_interest_rate, tenure_months)
Installment(principal, rate, tenure) ==
    /\ resp' = [op |-> "calculate_monthly_installment", principal |-> principal,
                annual_interest_rate |-> rate, tenure_months |-> tenure,
                installment |-> calculate_monthly_installment(principal, rate, tenure)]
    /\ UNCHANGED <<customers, loans, today, nextLoanId, pc, req>>

\* The request and the date it was served on, kept next to each answer of
\* the endpoint
EligibilityCall(cid, amount, rate, tenure, now) ==
    [op |-> "check_eligibility", customer_id |-> cid, loan_amount |-> amount,
     interest_rate |-> rate, tenure |-> tenure, date |-> now]

\* LoanEligibilityResponseSerializer: the decimals quantized to 2 digits
EligibilityResponse(call, d) ==
    call @@ [status |-> 200, approval |-> d.approved,
             corrected_interest_rate |-> d.rate,
             monthly_installment |-> RoundHalfEven(d.installment)]

EligibilityNotFound(call) ==
    call @@ [status |-> 404, error |-> "Customer not found"]

\* the endpoint without its "Customer not found" branch
CheckEligibility_no_404(cid, amount, rate, tenure) ==
    \E d \in {check_loan_eligibility(customers, loans, today, cid, amount, rate, tenure)} :
        /\ resp' = EligibilityResponse(EligibilityCall(cid, amount, rate, tenure, today), d)
        /\ UNCHANGED <<customers, loans, today, nextLoanId, pc, req>>

\* the endpoint also charging an approved amount to the customer's debt
CheckEligibility_saves_debt(cid, amount, rate, tenure) ==
    \E d \in {check_loan_eligibility(customers, loans, today, cid, amount, rate, tenure)} :
        /\ resp' = IF ~d.approved /\ d.message = "Customer not found"
                   THEN EligibilityNotFound(EligibilityCall(cid, amount, rate, tenure, today))
                   ELSE EligibilityResponse(EligibilityCall(cid, amount, rate, tenure, today), d)
        /\ customers' = IF d.approved
                        THEN [customers EXCEPT ![cid].current_debt = @ + amount]
                        ELSE customers
        /\ UNCHANGED <<loans, today, nextLoanId, pc, req>>

\* POST check-eligibility with a valid body
CheckEligibility(cid, amount, rate, tenure) ==
    \E d \in {check_loan_eligibility(customers, loans, today, cid, amount, rate, tenure)} :
        /\ resp' = IF ~d.approved /\ d.message = "Customer not found"
                   THEN EligibilityNotFound(EligibilityCall(cid, amount, rate, tenure, today))
                   ELSE EligibilityResponse(EligibilityCall(cid, amount, rate, tenure, today), d)
        /\ UNCHANGED <<customers, loans, today, nextLoanId, pc, req>>

\* date.today() moves on between two calls; nothing stored changes
Midnight ==
    /\ today < MaxToday
    /\ today' = today + 1
    /\ UNCHANGED <<customers, loans, nextLoanId, resp, pc, req>>

\* get_corrected_interest_rate(credit_score, requested_rate)
CorrectRate(score, rate) ==
    /\ resp' = [op |-> "get_corrected_interest_rate", score |-> score,
                requested_rate |-> rate,
                rate |-> get_corrected_interest_rate(score, rate)]
    /\ UNCHANGED <<customers, loans, today, nextLoanId, pc, req>>

----------------------------------------------------------------------------
(* loans/serializers.py, loans/views.py: register_customer *)

\* math.ceil(x / y) for x >= 0, y > 0
Ceil(x, y) == (x + y - 1) \div y

\* round(x / y): the limit rounded to the nearest lakh, as the comment says
ApprovedLimit_nearest(monthly_income) ==
    ((2 * LimitFactor * monthly_income + Lakh * CentsPerUnit)
        \div (2 * Lakh * CentsPerUnit)) * (Lakh * CentsPerUnit)

\* approved_limit = math.ceil(36 * monthly_income / 100000) * 100000
ApprovedLimit(monthly_income) ==
    Ceil(LimitFactor * monthly_income, Lakh * CentsPerUnit) * (Lakh * CentsPerUnit)

\* customer_id is an AutoField: the sequence follows the stored ids
NextCustomerId(C) ==
    IF DOMAIN C = {} THEN 1
    ELSE 1 + CHOOSE m \in DOMAIN C : \A c \in DOMAIN C : c <= m

\* valid stands for serializer.is_valid(): the name, age and phone checks
RegisterCustomer(valid, monthly_income) ==
    /\ UNCHANGED <<loans, today, nextLoanId, pc, req>>
    /\ IF ~valid
       THEN /\ resp' = [op |-> "register_customer", status |-> 400]
            /\ UNCHANGED customers
       ELSE LET id == NextCustomerId(customers)
                limit == ApprovedLimit(monthly_income)
            IN  /\ Cardinality(DOMAIN customers) < MaxCustomers
                /\ customers' = customers @@ (id :> Customer(monthly_income, limit, 0))
                /\ resp' = [op |-> "register_customer", status |-> 201,
                            customer_id |-> id, monthly_income |-> monthly_income,
                            approved_limit |-> limit]

----------------------------------------------------------------------------
(* loans/views.py: create_loan *)

\* Loan.objects.create(...)
InsertLoan(L, id, cid, amount, tenure, d, now) ==
    L @@ (id :> Loan(cid, amount, tenure, d.rate,
                     RoundHalfEven(calculate_monthly_installment(amount, d.rate, tenure)),
                     0, now, now + tenure))

\* customer.current_debt = loan_amount: the debt overwritten, not incremented
SaveDebt_assign(C, cid, customer, amount) ==
    [C EXCEPT ![cid] = [customer EXCEPT !.current_debt = amount]]

\* customer.current_debt += loan_amount; customer.save()
\* save() writes every column of the instance fetched at the start
SaveDebt(C, cid, customer, amount) ==
    [C EXCEPT ![cid] = [customer EXCEPT !.current_debt = @ + amount]]

CreateLoanResponse(status, cid, amount, rate, tenure, id, ok, msg, inst) ==
    [op |-> "create_loan", status |-> status, customer_id |-> cid,
     loan_amount |-> amount, interest_rate |-> rate, tenure |-> tenure,
     loan_id |-> id, loan_approved |-> ok, message |-> msg,
     monthly_installment |-> inst]

\* get_object_or_404 raises Http404 inside the try block; Http404 is an
\* Exception, so the handler's except clause answers 500
FailedResponse(cid, amount, rate, tenure) ==
    CreateLoanResponse(500, cid, amount, rate, tenure, NoLoan, FALSE,
                       "Failed to process loan", 0)

\* LoanCreateResponseSerializer quantizes monthly_installment to 2 digits
ApprovedResponse(cid, amount, rate, tenure, id, d) ==
    CreateLoanResponse(200, cid, amount, rate, tenure, id, TRUE,
                       "Loan approved successfully",
                       RoundHalfEven(calculate_monthly_installment(amount, d.rate, tenure)))

RejectedResponse(cid, amount, rate, tenure, d) ==
    CreateLoanResponse(200, cid, amount, rate, tenure, NoLoan, FALSE,
                       d.message, RoundHalfEven(d.installment))

\* the handler with the debt update outside the "if approved" branch
CreateLoan_debt_always(cid, amount, rate, tenure) ==
    /\ nextLoanId <= MaxLoans
    /\ UNCHANGED <<today, pc, req>>
    /\ IF cid \notin DOMAIN customers
       THEN /\ resp' = FailedResponse(cid, amount, rate, tenure)
            /\ UNCHANGED <<customers, loans, nextLoanId>>
       ELSE LET customer == customers[cid]
                d == check_loan_eligibility(customers, loans, today,
                                            cid, amount, rate, tenure)
            IN  /\ customers' = SaveDebt(customers, cid, customer, amount)
                /\ IF d.approved
                   THEN /\ loans' = InsertLoan(loans, nextLoanId, cid, amount,
                                               tenure, d, today)
                        /\ nextLoanId' = nextLoanId + 1
                        /\ resp' = ApprovedResponse(cid, amount, rate, tenure,
                                                    nextLoanId, d)
                   ELSE /\ resp' = RejectedResponse(cid, amount, rate, tenure, d)
                        /\ UNCHANGED <<loans, nextLoanId>>

\* The whole handler, run without interference
CreateLoan(cid, amount, rate, tenure) ==
    /\ nextLoanId <= MaxLoans
    /\ UNCHANGED <<today, pc, req>>
    /\ IF cid \notin DOMAIN customers
       THEN /\ resp' = FailedResponse(cid, amount, rate, tenure)
            /\ UNCHANGED <<customers, loans, nextLoanId>>
       ELSE LET customer == customers[cid]
                d == check_loan_eligibility(customers, loans, today,
                                            cid, amount, rate, tenure)
            IN  IF d.approved
                THEN /\ loans' = InsertLoan(loans, nextLoanId, cid, amount,
                                            tenure, d, today)
                     /\ nextLoanId' = nextLoanId + 1
                     /\ customers' = SaveDebt(customers, cid, customer, amount)
                     /\ resp' = ApprovedResponse(cid, amount, rate, tenure,
                                                 nextLoanId, d)
                ELSE /\ resp' = RejectedResponse(cid, amount, rate, tenure, d)
                     /\ UNCHANGED <<customers, loans, nextLoanId>>

\* The date changes between calls
Tick ==
    /\ today < MaxToday
    /\ today' = today + 1
    /\ resp' = NoResp
    /\ UNCHANGED <<customers, loans, nextLoanId, pc, req>>

----------------------------------------------------------------------------
(* create_loan, one database access at a time *)

\* customer = get_object_or_404(Customer, customer_id = customer_id)
Begin(p, cid, amount, rate, tenure) ==
    /\ pc[p] = "idle"
    /\ UNCHANGED <<customers, loans, today, nextLoanId>>
    /\ IF cid \notin DOMAIN customers
       THEN /\ resp' = FailedResponse(cid, amount, rate, tenure)
            /\ pc' = [pc EXCEPT ![p] = "done"]
            /\ UNCHANGED req
       ELSE /\ req' = [req EXCEPT ![p] =
                        [op |-> "create_loan", customer_id |-> cid,
                         loan_amount |-> amount, interest_rate |-> rate,
                         tenure |-> tenure, customer |-> customers[cid]]]
            /\ pc' = [pc EXCEPT ![p] = "check"]
            /\ UNCHANGED resp

\* approved, corrected_rate, monthly_installment, message = check_loan_eligibility(...)
Check(p) ==
    /\ pc[p] = "check"
    /\ UNCHANGED <<customers, loans, today, nextLoanId>>
    /\ LET r == req[p]
           d == check_loan_eligibility(customers, loans, today, r.customer_id,
                                       r.loan_amount, r.interest_rate, r.tenure)
       IN  IF d.approved
           THEN /\ req' = [req EXCEPT ![p] = [decision |-> d] @@ r]
                /\ pc' = [pc EXCEPT ![p] = "insert"]
                /\ UNCHANGED resp
           ELSE /\ resp' = RejectedResponse(r.customer_id, r.loan_amount,
                                            r.interest_rate, r.tenure, d)
                /\ pc' = [pc EXCEPT ![p] = "done"]
                /\ UNCHANGED req

\* loan = Loan.objects.create(...)
Insert(p) ==
    /\ pc[p] = "insert"
    /\ LET r == req[p]
       IN  /\ loans' = InsertLoan(loans, nextLoanId, r.customer_id, r.loan_amount,
                                  r.tenure, r.decision, today)
           /\ req' = [req EXCEPT ![p] = [loan_id |-> nextLoanId] @@ r]
    /\ nextLoanId' = nextLoanId + 1
    /\ pc' = [pc EXCEPT ![p] = "save"]
    /\ UNCHANGED <<customers, today, resp>>

\* customer.current_debt += loan_amount; customer.save(); return Response(...)
Save(p) ==
    /\ pc[p] = "save"
    /\ LET r == req[p]
       IN  /\ customers' = SaveDebt(customers, r.customer_id, r.customer, r.loan_amount)
           /\ resp' = ApprovedResponse(r.customer_id, r.loan_amount, r.interest_rate,
                                       r.tenure, r.loan_id, r.decision)
    /\ pc' = [pc EXCEPT ![p] = "done"]
    /\ UNCHANGED <<loans, today, nextLoanId, req>>

----------------------------------------------------------------------------
(* Sequential system: create_loan requests arrive one at a time *)

Init ==
    /\ \E salary \in Salaries, limit \in Limits :
          customers = (1 :> Customer(salary, limit, 0)) @@
                      (2 :> Customer(100, 50, 0))
    /\ \E ids \in SUBSET DOMAIN HistoryRows : loans = Restrict(HistoryRows, ids)
    /\ today = FirstDay
    /\ nextLoanId = 1
    /\ resp = NoResp
    /\ pc = [p \in Procs |-> "idle"]
    /\ req = [p \in Procs |-> NoReq]

Next ==
    \/ \E cid \in Applicants, amount \in LoanAmounts, rate \in Rates, tenure \in LoanTenures :
          CreateLoan(cid, amount, rate, tenure)
    \/ Tick

Spec == Init /\ [][Next]_vars

(* The pure functions, applied to every initial database at every date *)

InitFn ==
    /\ \E salary \in Salaries, limit \in Limits :
          customers = (1 :> Customer(salary, limit, 0)) @@
                      (2 :> Customer(100, 50, 0))
    /\ \E ids \in SUBSET DOMAIN HistoryRows : loans = Restrict(HistoryRows, ids)
    /\ today \in FirstDay..MaxToday
    /\ nextLoanId = 1
    /\ resp = NoResp
    /\ pc = [p \in Procs |-> "idle"]
    /\ req = [p \in Procs |-> NoReq]

NextFn ==
    \/ \E cid \in RequestIds : Score(cid)
    \/ \E cid \in RequestIds, amount \in Amounts, rate \in Rates, tenure \in Tenures :
          Decide(cid, amount, rate, tenure)

SpecFn == InitFn /\ [][NextFn]_vars

(* Concurrent create_loan requests: the view takes no lock and opens no   *)
(* transaction, so the accesses of different requests interleave          *)

InitConc ==
    /\ customers = (1 :> Customer(100, 50, 0)) @@ (2 :> Customer(100, 50, 0))
    /\ loans = <<>>
    /\ today = FirstDay
    /\ nextLoanId = 1
    /\ resp = NoResp
    /\ pc = [p \in Procs |-> "idle"]
    /\ req = [p \in Procs |-> NoReq]

NextConc ==
    \/ \E p \in Procs, cid \in Applicants, amount \in LoanAmounts,
          rate \in Rates, tenure \in Tenures : Begin(p, cid, amount, rate, tenure)
    \/ \E p \in Procs : Check(p)
    \/ \E p \in Procs : Insert(p)
    \/ \E p \in Procs : Save(p)

SpecConc == InitConc /\ [][NextConc]_vars

(* The eligibility check, the endpoint built on it and the rate floors *)

InitApi ==
    /\ \E limit \in Limits :
          customers = (1 :> Customer(100, limit, 0)) @@ (2 :> Customer(100, 50, 0))
    /\ \E ids \in SUBSET DOMAIN HistoryRows : loans = Restrict(HistoryRows, ids)
    /\ today = FirstDay
    /\ nextLoanId = 1
    /\ resp = NoResp
    /\ pc = [p \in Procs |-> "idle"]
    /\ req = [p \in Procs |-> NoReq]

NextApi ==
    \/ \E cid \in RequestIds, amount \in Amounts, rate \in Rates, tenure \in Tenures :
          Decide(cid, amount, rate, tenure)
    \/ \E cid \in RequestIds, amount \in Amounts, rate \in Rates, tenure \in Tenures :
          CheckEligibility(cid, amount, rate, tenure)
    \/ \E score \in ScoreValues, rate \in RateValues : CorrectRate(score, rate)

SpecApi == InitApi /\ [][NextApi]_vars

(* The calls that only read, on one day and on the next *)

InitPure ==
    /\ customers = (1 :> Customer(100, 50, 0)) @@ (2 :> Customer(100, 50, 0))
    /\ \E ids \in SUBSET DOMAIN HistoryRows : loans = Restrict(HistoryRows, ids)
    /\ today = FirstDay
    /\ nextLoanId = 1
    /\ resp = NoResp
    /\ pc = [p \in Procs |-> "idle"]
    /\ req = [p \in Procs |-> NoReq]

NextPure ==
    \/ \E cid \in RequestIds : Score(cid)
    \/ \E score \in ScoreValues, rate \in Rates : CorrectRate(score, rate)
    \/ \E principal \in InstallmentPrincipals, rate \in Rates, tenure \in LoanTenures :
          Installment(principal, rate, tenure)
    \/ \E cid \in Applicants, amount \in LoanAmounts, rate \in Rates, tenure \in Tenures :
          Decide(cid, amount, rate, tenure)
    \/ \E cid \in Applicants, amount \in LoanAmounts, rate \in Rates, tenure \in Tenures :
          CheckEligibility(cid, amount, rate, tenure)
    \/ Midnight

SpecPure == InitPure /\ [][NextPure]_vars

(* Registration, and the eligibility of customers without loans *)

InitCalc ==
    /\ customers = (1 :> Customer(100, 50, 0)) @@ (2 :> Customer(100, 50, 0))
    /\ loans = <<>>
    /\ today = FirstDay
    /\ nextLoanId = 1
    /\ resp = NoResp
    /\ pc = [p \in Procs |-> "idle"]
    /\ req = [p \in Procs |-> NoReq]

NextCalc ==
    \/ \E valid \in BOOLEAN, income \in Incomes : RegisterCustomer(valid, income)
    \/ \E cid \in RequestIds, r \in CalcRequests : Decide(cid, r[1], r[2], r[3])

SpecCalc == InitCalc /\ [][NextCalc]_vars

----------------------------------------------------------------------------
(* loans/views.py: view_customer_loans *)

\* CustomerLoanListSerializer: one item of the answer
LoanListItem(L, l) ==
    [loan_id |-> l, loan_amount |-> L[l].loan_amount,
     interest_rate |-> L[l].interest_rate,
     monthly_installment |-> L[l].monthly_repayment,
     repayments_left |-> Max(0, L[l].tenure - L[l].emis_paid_on_time)]

\* The answer lists customer.loans.filter(end_date__gte = date.today()) in
\* no stated order; loan ids are unique, so the list is held as a set
ViewCustomerLoans(cid) ==
    /\ resp' = IF cid \notin DOMAIN customers
               THEN [op |-> "view_customer_loans", customer_id |-> cid,
                     status |-> 404, error |-> "Customer not found"]
               ELSE [op |-> "view_customer_loans", customer_id |-> cid,
                     status |-> 200,
                     loans |-> {LoanListItem(loans, l) :
                                   l \in ActiveLoansOf(loans, cid, today)}]
    /\ UNCHANGED <<customers, loans, today, nextLoanId, pc, req>>

----------------------------------------------------------------------------
(* loans/tasks.py: the background tasks *)

NoId == 0        \* an empty customer_id cell
NoPhone == 0     \* the phone number of a customer no sheet names

Tasks == {"ingest_customer_data", "ingest_loan_data", "calculate_current_debt"}

\* A row of customer_data.xlsx: id, phone number, salary and approved limit
\* (the names and the age are copied the same way as the salary)
CustomerRow(id, phone, salary, limit) ==
    [customer_id |-> id, phone_number |-> phone,
     monthly_salary |-> salary, approved_limit |-> limit]

\* Customer sheets: two customers; a row without id before customer 1; two
\* rows for customer 1; two customers with one phone number
CustomerSheets ==
    {<<CustomerRow(1, 1, 100, 50), CustomerRow(2, 2, 100, 50)>>,
     <<CustomerRow(NoId, 3, 0, 0), CustomerRow(1, 1, 100, 50)>>,
     <<CustomerRow(1, 1, 100, 50), CustomerRow(1, 1, 0, 0)>>,
     <<CustomerRow(1, 1, 100, 50), CustomerRow(2, 1, 100, 50)>>}

\* A row of loan_data.xlsx
LoanRow(id, loan) == [loan_id |-> id, loan |-> loan]

\* Loan sheets: the history of customer 1 after a loan of customer 3, whom
\* no customer sheet names; a loan of customer 2 and a loan of customer 1
LoanSheets ==
    {<<LoanRow(1004, Loan(3, 30, 1, 10, 30, 0, FirstDay, FirstDay + 1)),
       LoanRow(1001, HistoryRows[1001]), LoanRow(1002, HistoryRows[1002]),
       LoanRow(1003, HistoryRows[1003])>>,
     <<LoanRow(1005, Loan(2, 30, 2, 10, 15, 1, FirstDay, FirstDay + 2)),
       LoanRow(1002, HistoryRows[1002])>>}

PhoneOf(customer) ==
    IF "phone_number" \in DOMAIN customer THEN customer.phone_number ELSE NoPhone

\* phone_number is unique: another customer already holds the number
PhoneTaken(C, id, phone) ==
    \E c \in DOMAIN C \ {id} : PhoneOf(C[c]) = phone

\* the row saved with current_debt set to 0 also for a customer that exists
IngestCustomerRow_resets_debt(C, row) ==
    LET id == row.customer_id
        customer == [monthly_salary |-> row.monthly_salary,
                     approved_limit |-> row.approved_limit,
                     current_debt |-> 0,
                     phone_number |-> row.phone_number]
    IN  IF id \in DOMAIN C THEN [C EXCEPT ![id] = customer]
        ELSE C @@ (id :> customer)

\* Customer.objects.get_or_create(customer_id = ..., defaults = {...}), and
\* for a customer that exists the row's fields assigned and saved
IngestCustomerRow(C, row) ==
    LET id == row.customer_id
        debt == IF id \in DOMAIN C THEN C[id].current_debt ELSE 0
        customer == [monthly_salary |-> row.monthly_salary,
                     approved_limit |-> row.approved_limit,
                     current_debt |-> debt,
                     phone_number |-> row.phone_number]
    IN  IF id \in DOMAIN C THEN [C EXCEPT ![id] = customer]
        ELSE C @@ (id :> customer)

\* The loop over the rows inside transaction.atomic(): a row without id is
\* passed over; a row whose phone number another customer holds raises
\* IntegrityError, which leaves the loop
RECURSIVE IngestCustomerRows(_, _, _)
IngestCustomerRows(C, sheet, i) ==
    IF i > Len(sheet) THEN [ok |-> TRUE, customers |-> C]
    ELSE IF sheet[i].customer_id = NoId THEN IngestCustomerRows(C, sheet, i + 1)
    ELSE IF PhoneTaken(C, sheet[i].customer_id, sheet[i].phone_number)
         THEN [ok |-> FALSE, customers |-> C]
    ELSE IngestCustomerRows(IngestCustomerRow(C, sheet[i]), sheet, i + 1)

\* ingest_customer_data: the transaction commits every row or, when the
\* loop raises, none
IngestCustomerData ==
    \E r \in {IngestCustomerRows(customers, req["ingest_customer_data"].sheet, 1)} :
        /\ customers' = IF r.ok THEN r.customers ELSE customers
        /\ resp' = [op |-> "ingest_customer_data", ok |-> r.ok]
        /\ pc' = [pc EXCEPT !["ingest_customer_data"] = "done"]
        /\ UNCHANGED <<loans, today, nextLoanId, req>>

\* the loop of ingest_loan_data without the lookup of the row's customer
RECURSIVE IngestLoanRows_no_lookup(_, _, _, _)
IngestLoanRows_no_lookup(C, L, sheet, i) ==
    IF i > Len(sheet) THEN L
    ELSE IngestLoanRows_no_lookup(C,
             IF sheet[i].loan_id \in DOMAIN L
             THEN [L EXCEPT ![sheet[i].loan_id] = sheet[i].loan]
             ELSE L @@ (sheet[i].loan_id :> sheet[i].loan),
             sheet, i + 1)

\* The loop of ingest_loan_data: Customer.objects.get(...) of the row's
\* customer, then Loan.objects.get_or_create(loan_id = ..., defaults = {...})
\* and, for a loan that exists, every field assigned and saved; a row whose
\* customer is missing is logged and passed over
RECURSIVE IngestLoanRows(_, _, _, _)
IngestLoanRows(C, L, sheet, i) ==
    IF i > Len(sheet) THEN L
    ELSE IF sheet[i].loan.customer \notin DOMAIN C
         THEN IngestLoanRows(C, L, sheet, i + 1)
    ELSE IngestLoanRows(C,
             IF sheet[i].loan_id \in DOMAIN L
             THEN [L EXCEPT ![sheet[i].loan_id] = sheet[i].loan]
             ELSE L @@ (sheet[i].loan_id :> sheet[i].loan),
             sheet, i + 1)

\* ingest_loan_data
IngestLoanData ==
    /\ loans' = IngestLoanRows(customers, loans, req["ingest_loan_data"].sheet, 1)
    /\ resp' = [op |-> "ingest_loan_data"]
    /\ pc' = [pc EXCEPT !["ingest_loan_data"] = "done"]
    /\ UNCHANGED <<customers, today, nextLoanId, req>>

\* sum(loan.loan_amount - loan.emis_paid_on_time * loan.monthly_repayment
\*     for loan in active_loans)
RECURSIVE Outstanding(_, _)
Outstanding(L, ids) ==
    IF ids = {} THEN 0
    ELSE LET l == CHOOSE x \in ids : TRUE
         IN  L[l].loan_amount - L[l].emis_paid_on_time * L[l].monthly_repayment
                 + Outstanding(L, ids \ {l})

\* the debt without max(0, ...)
CurrentDebt_unclamped(L, cid, now) == Outstanding(L, ActiveLoansOf(L, cid, now))

\* current_debt = max(0, current_debt)
CurrentDebt(L, cid, now) == Max(0, Outstanding(L, ActiveLoansOf(L, cid, now)))

\* for customer in Customer.objects.all(): the rows are fetched when the
\* loop starts
DebtBegin ==
    /\ pc["calculate_current_debt"] # "running"
    /\ req' = [req EXCEPT !["calculate_current_debt"] =
                   [fetched |-> customers, todo |-> DOMAIN customers]]
    /\ pc' = [pc EXCEPT !["calculate_current_debt"] = "running"]
    /\ resp' = [op |-> "calculate_current_debt", updated_customers |-> 0]
    /\ UNCHANGED <<customers, loans, today, nextLoanId>>

\* One pass of the loop: the customer's active loans are read now, and
\* customer.save() writes every column of the row fetched at the start
DebtStep ==
    /\ pc["calculate_current_debt"] = "running"
    /\ \E cid \in req["calculate_current_debt"].todo :
          /\ customers' =
                [customers EXCEPT ![cid] =
                    [req["calculate_current_debt"].fetched[cid]
                        EXCEPT !.current_debt = CurrentDebt(loans, cid, today)]]
          /\ req' = [req EXCEPT !["calculate_current_debt"].todo = @ \ {cid}]
          /\ resp' = [op |-> "calculate_current_debt", customer_id |-> cid,
                      updated_customers |->
                          Cardinality(DOMAIN req["calculate_current_debt"].fetched)
                              - Cardinality(req'["calculate_current_debt"].todo)]
    /\ UNCHANGED <<loans, today, nextLoanId, pc>>

\* the loop is over and the task returns
DebtEnd ==
    /\ pc["calculate_current_debt"] = "running"
    /\ req["calculate_current_debt"].todo = {}
    /\ pc' = [pc EXCEPT !["calculate_current_debt"] = "done"]
    /\ resp' = [op |-> "calculate_current_debt_done",
                updated_customers |-> Cardinality(DOMAIN req["calculate_current_debt"].fetched)]
    /\ UNCHANGED <<customers, loans, today, nextLoanId, req>>

----------------------------------------------------------------------------
(* loans/management/commands/ingest_data.py: the three tasks, queued
   together and run once each by the workers in any order *)

InitTasks ==
    /\ customers = <<>>
    /\ loans = <<>>
    /\ today = FirstDay
    /\ nextLoanId = 1
    /\ resp = NoResp
    /\ pc = [t \in Tasks |-> "queued"]
    /\ \E cs \in CustomerSheets, ls \in LoanSheets :
          req = [t \in Tasks |->
                    IF t = "ingest_customer_data" THEN [sheet |-> cs]
                    ELSE IF t = "ingest_loan_data" THEN [sheet |-> ls]
                    ELSE [fetched |-> <<>>, todo |-> {}]]

NextTasks ==
    \/ pc["ingest_customer_data"] = "queued" /\ IngestCustomerData
    \/ pc["ingest_loan_data"] = "queued" /\ IngestLoanData
    \/ pc["calculate_current_debt"] = "queued" /\ DebtBegin
    \/ DebtStep
    \/ DebtEnd

SpecTasks == InitTasks /\ [][NextTasks]_vars

(* One ingest_data run, and ingest_customer_data run again at any time,
   next to registrations and loan requests *)

DataIncomes == {100}                                 \* monthly_income at registration
DataRequests == {<<1, 30, 10, 1>>}                   \* create_loan requests

InitData == InitTasks

NextData ==
    \/ IngestCustomerData
    \/ pc["ingest_loan_data"] = "queued" /\ IngestLoanData
    \/ pc["calculate_current_debt"] = "queued" /\ DebtBegin
    \/ DebtStep
    \/ DebtEnd
    \/ \E income \in DataIncomes : RegisterCustomer(TRUE, income)
    \/ \E r \in DataRequests : CreateLoan(r[1], r[2], r[3], r[4])

SpecData == InitData /\ [][NextData]_vars

(* The score of customer 1 over histories of up to MaxHistory loans *)

\* A loan of customer 1 taken and ended last year, and one taken this month
OldLoan(emis) == Loan(1, 10, 2, 10, 5, emis, FirstDay - 6, FirstDay - 4)
RecentLoan(emis) == Loan(1, 10, 2, 10, 5, emis, FirstDay, FirstDay + 2)

ScoreLimits == {0, 50, 200}     \* approved limit, cents
HistoryEmis == {0, 1, 3}        \* emis_paid_on_time of every loan of the history

\* customer 1 has n loans, the first k of them taken this year
InitScore ==
    /\ \E limit \in ScoreLimits : customers = (1 :> Customer(100, limit, 0))
    /\ \E n \in 1..MaxHistory, emis \in HistoryEmis :
          \E k \in 0..Min(n, MaxRecent) :
              loans = [l \in 1..n |-> IF l <= k THEN RecentLoan(emis) ELSE OldLoan(emis)]
    /\ today = FirstDay
    /\ nextLoanId = 1
    /\ resp = NoResp
    /\ pc = [p \in Procs |-> "idle"]
    /\ req = [p \in Procs |-> NoReq]

NextScore ==
    \/ \E cid \in RequestIds : Score(cid)
    \/ Midnight

SpecScore == InitScore /\ [][NextScore]_vars

(* Every reader of the active loans, on the last day of a loan and on the
   day after *)

InitActive ==
    /\ \E limit \in Limits :
          customers = (1 :> Customer(100, limit, 0)) @@ (2 :> Customer(100, 50, 0))
    /\ \E ids \in SUBSET DOMAIN HistoryRows : loans = Restrict(HistoryRows, ids)
    /\ today = FirstDay
    /\ nextLoanId = 1
    /\ resp = NoResp
    /\ pc = [t \in Tasks |-> "queued"]
    /\ req = [t \in Tasks |-> [fetched |-> <<>>, todo |-> {}]]

NextActive ==
    \/ \E cid \in RequestIds : Score(cid)
    \/ \E cid \in Applicants, amount \in LoanAmounts, rate \in Rates, tenure \in Tenures :
          Decide(cid, amount, rate, tenure)
    \/ \E cid \in RequestIds : ViewCustomerLoans(cid)
    \/ DebtBegin
    \/ DebtStep
    \/ DebtEnd
    \/ Tick

SpecActive == InitActive /\ [][NextActive]_vars

----------------------------------------------------------------------------
(* Properties *)

RatEq(x, y) == x[1] * y[2] = y[1] * x[2]

\* what a claim may say of the stored data without the functions above
ActivePrincipal(cid) ==
    SumField(loans, {l \in DOMAIN loans : loans[l].customer = cid /\ today <= loans[l].end_date},
             "loan_amount")
ActiveInstallments(cid) ==
    SumField(loans, {l \in DOMAIN loans : loans[l].customer = cid /\ today <= loans[l].end_date},
             "monthly_repayment")
Principal(cid) ==
    SumField(loans, {l \in DOMAIN loans : loans[l].customer = cid}, "loan_amount")

Rejections == {"Credit score too low", "EMIs exceed 50% of monthly salary",
               "Loan amount exceeds approved limit"}

IsDecision == resp.op = "check_loan_eligibility" /\ resp.customer_id \in DOMAIN customers
IsScore == resp.op = "calculate_credit_score" /\ resp.customer_id \in DOMAIN customers

\* C1: for an existing customer the decision is the outcome of the first
\* failing check in the order score <= 10, EMIs > 50% of salary, amount >
\* limit; approval exactly when all three pass; every rejection message is
\* one of the three strings.
C1_CheckOrder ==
    IsDecision =>
      LET c == customers[resp.customer_id]
          score == calculate_credit_score(customers, loans, today, resp.customer_id)
          inst == resp.installment
          lowScore == score[1] <= 10 * score[2]
          overEmi == 2 * (ActiveInstallments(resp.customer_id) * inst[2] + inst[1])
                       > c.monthly_salary * inst[2]
          overLimit == resp.loan_amount > c.approved_limit
      IN  /\ resp.message =
               IF lowScore THEN "Credit score too low"
               ELSE IF overEmi THEN "EMIs exceed 50% of monthly salary"
               ELSE IF overLimit THEN "Loan amount exceeds approved limit"
               ELSE "Loan approved"
          /\ resp.approved <=> (~lowScore /\ ~overEmi /\ ~overLimit)
          /\ ~resp.approved => resp.message \in Rejections

\* a decision where the EMI check and the limit check both fail
C1_Witness ==
    /\ IsDecision
    /\ resp.message = "EMIs exceed 50% of monthly salary"
    /\ resp.loan_amount > customers[resp.customer_id].approved_limit

\* C2: no create_loan request writes its loan in a state where the
\* customer's active installments plus the new installment exceed 50% of
\* the customer's monthly salary.
C2_SerializedPerCustomer ==
    [][\A p \in Procs :
         (pc[p] = "insert" /\ pc'[p] = "save") =>
           LET cid == req[p].customer_id
           IN  2 * (ActiveInstallments(cid) + loans'[req'[p].loan_id].monthly_repayment)
                 <= customers[cid].monthly_salary]_vars

\* C3: once all concurrent requests have finished, the customer's
\* current_debt is its value before them (0) plus the principals of the
\* loans they created.
C3_NoLostDebt ==
    (\A p \in Procs : pc[p] = "done") =>
       \A cid \in DOMAIN customers : customers[cid].current_debt = Principal(cid)

C5_RejectionEffect ==
    [][LET cid == resp'.customer_id
           d == check_loan_eligibility(customers, loans, today, cid, resp'.loan_amount,
                                       resp'.interest_rate, resp'.tenure)
       IN  (resp'.op = "create_loan" /\ cid \in DOMAIN customers /\ ~d.approved)
             => /\ loans' = loans
                /\ customers' = customers
                /\ resp'.loan_id = NoLoan
                /\ resp'.loan_approved = FALSE
                /\ resp'.message = d.message
                /\ resp'.message \in Rejections]_vars

\* a rejection answered for a customer who holds loans and debt
C5_Witness ==
    /\ resp.op = "create_loan" /\ resp.status = 200 /\ ~resp.loan_approved
    /\ resp.loan_id = NoLoan
    /\ customers[resp.customer_id].current_debt > 0
    /\ LoansOf(loans, resp.customer_id) # {}

\* C6: for a customer who started with no loans, the principals of the
\* active loans never add up to more than the approved limit.
C6_LimitCapsPrincipal ==
    \A cid \in DOMAIN customers :
       ({l \in DOMAIN loans : loans[l].customer = cid} \cap DOMAIN HistoryRows = {})
       => ActivePrincipal(cid) <= customers[cid].approved_limit

\* C7: the score of every customer lies in [0, 100].
C7_ScoreRange ==
    IsScore => /\ resp.score[2] > 0
               /\ 0 <= resp.score[1]
               /\ resp.score[1] <= 100 * resp.score[2]

\* a score computed from a history with more on-time EMIs than tenure
\* that is not cut off by the overexposure gate
C7_Witness ==
    /\ IsScore
    /\ LET mine == {l \in DOMAIN loans : loans[l].customer = resp.customer_id}
       IN  SumField(loans, mine, "emis_paid_on_time") > SumField(loans, mine, "tenure")
    /\ ActivePrincipal(resp.customer_id) <= customers[resp.customer_id].approved_limit

\* C8: when the principal of the active loans exceeds the approved limit
\* the score is exactly 0.
C8_OverexposedScoresZero ==
    (IsScore /\ ActivePrincipal(resp.customer_id) > customers[resp.customer_id].approved_limit)
    => resp.score = <<0, 1>>

\* an overexposed customer whose only active loan ends today and who has
\* a fully repaid loan in the history
C8_Witness ==
    /\ IsScore
    /\ ActivePrincipal(resp.customer_id) > customers[resp.customer_id].approved_limit
    /\ customers[resp.customer_id].approved_limit > 0
    /\ \E l \in DOMAIN loans : loans[l].customer = resp.customer_id
                               /\ loans[l].emis_paid_on_time = loans[l].tenure
    /\ \A l \in DOMAIN loans : loans[l].customer = resp.customer_id
                               => loans[l].end_date <= today

\* C9: a customer without any loan record scores exactly 50.
C9_NoHistoryScoresFifty ==
    (IsScore /\ {l \in DOMAIN loans : loans[l].customer = resp.customer_id} = {})
    => resp.score = <<50, 1>>

\* the score of a customer without loans, salary 0 and approved limit 0
C9_Witness ==
    /\ IsScore
    /\ {l \in DOMAIN loans : loans[l].customer = resp.customer_id} = {}
    /\ customers[resp.customer_id].approved_limit = 0
    /\ customers[resp.customer_id].monthly_salary = 0

\* C10: the result for a customer id that does not exist differs from the
\* score of every existing customer.
C10_NotFoundDistinct ==
    (resp.op = "calculate_credit_score" /\ resp.customer_id \notin DOMAIN customers)
    => \A cid \in DOMAIN customers :
          ~RatEq(resp.score, calculate_credit_score(customers, loans, today, cid))

\* C11: the corrected rate is max(r, 8) for a score above 50, max(r, 12)
\* for a score in (30, 50], max(r, 16) for a score in (10, 30] and r for a
\* score of at most 10; it is never below the requested rate r.
C11_RateFloors ==
    resp.op = "get_corrected_interest_rate" =>
      LET s == resp.score
          r == resp.requested_rate
          floor == IF s[1] > 50 * s[2] THEN 8
                   ELSE IF s[1] > 30 * s[2] THEN 12
                   ELSE IF s[1] > 10 * s[2] THEN 16
                   ELSE 0
      IN  /\ resp.rate = (IF r >= floor THEN r ELSE floor)
          /\ resp.rate >= r

\* a score exactly on the boundary 50 with a request below the floor 12
C11_Witness ==
    /\ resp.op = "get_corrected_interest_rate"
    /\ resp.score = <<50, 1>> /\ resp.requested_rate = 9 /\ resp.rate = 12

C12_RejectionCarriesInstallment ==
    (resp.op = "create_loan" /\ resp.status = 200 /\ ~resp.loan_approved) =>
      LET d == check_loan_eligibility(customers, loans, today, resp.customer_id,
                 resp.loan_amount, resp.interest_rate, resp.tenure)
      IN  /\ RatEq(d.installment,
                   calculate_monthly_installment(resp.loan_amount, d.rate, resp.tenure))
          /\ RatEq(RatInt(resp.monthly_installment), d.installment)

\* C13: for a customer id that does not exist check_loan_eligibility
\* returns not-approved, installment 0, the requested rate unchanged and
\* the message "Customer not found"; the check_eligibility endpoint answers
\* 404, not a decision, and changes no customer and no loan.
C13_NotFound ==
    [][ /\ (resp'.op = "check_loan_eligibility" /\ resp'.customer_id \notin DOMAIN customers)
           => /\ ~resp'.approved
              /\ resp'.installment = <<0, 1>>
              /\ resp'.rate = resp'.interest_rate
              /\ resp'.message = "Customer not found"
        /\ (resp'.op = "check_eligibility" /\ resp'.customer_id \notin DOMAIN customers)
           => /\ resp'.status = 404
              /\ resp'.error = "Customer not found"
              /\ "approval" \notin DOMAIN resp'
              /\ customers' = customers
              /\ loans' = loans ]_vars

\* the endpoint has answered a request naming the missing customer 3
C13_Witness ==
    /\ resp.op = "check_eligibility"
    /\ resp.customer_id \notin DOMAIN customers
    /\ resp.status = 404

\* C14: a create_loan request naming a customer id that does not exist is
\* answered 404 (not found), with no rejection message and no loan stored.
C14_MissingCustomerNotFound ==
    (resp.op = "create_loan" /\ resp.customer_id \notin DOMAIN customers) =>
      /\ resp.status = 404
      /\ resp.message \notin Rejections
      /\ resp.loan_id = NoLoan

\* what the EMI test of a decision compares: the installments of the
\* customer's active loans plus the returned installment, against half the salary
EmisExceedHalfSalary ==
    RatLT(Rat(customers[resp.customer_id].monthly_salary, 2),
          RatAdd(RatInt(ActiveInstallments(resp.customer_id)), resp.installment))

ScoreOfDecision == calculate_credit_score(customers, loans, today, resp.customer_id)

\* C15 as stated: whenever the requested principal exceeds the approved
\* limit, the decision is approved = false with the message
\* "Loan amount exceeds approved limit".
C15_Original ==
    (IsDecision /\ resp.loan_amount > customers[resp.customer_id].approved_limit) =>
      /\ ~resp.approved
      /\ resp.message = "Loan amount exceeds approved limit"

\* C15 amended: whenever the requested principal exceeds the approved limit
\* the decision is approved = false; its message is "Loan amount exceeds
\* approved limit" exactly when the score is above 10 and the EMIs do not
\* exceed half the salary, "Credit score too low" when the score is at most
\* 10, and "EMIs exceed 50% of monthly salary" otherwise.
C15_LimitRejects ==
    (IsDecision /\ resp.loan_amount > customers[resp.customer_id].approved_limit) =>
      /\ ~resp.approved
      /\ resp.message =
           (IF RatLE(ScoreOfDecision, <<10, 1>>) THEN "Credit score too low"
            ELSE IF EmisExceedHalfSalary THEN "EMIs exceed 50% of monthly salary"
            ELSE "Loan amount exceeds approved limit")

\* a request above the limit by a customer who passes the first two tests
C15_Witness ==
    /\ IsDecision
    /\ resp.loan_amount = 70 /\ customers[resp.customer_id].approved_limit = 50
    /\ ~RatLE(ScoreOfDecision, <<10, 1>>) /\ ~EmisExceedHalfSalary
    /\ resp.message = "Loan amount exceeds approved limit"

\* C16 as stated: whenever the installments of the active loans plus the
\* new installment exceed 50% of the monthly salary, the decision is a
\* rejection with the message "EMIs exceed 50% of monthly salary".
C16_Original ==
    (IsDecision /\ EmisExceedHalfSalary) =>
      /\ ~resp.approved
      /\ resp.message = "EMIs exceed 50% of monthly salary"

\* C16 amended: whenever the installments of the active loans plus the new
\* installment exceed 50% of the monthly salary the decision is a rejection
\* that still returns the computed installment; its message is "EMIs exceed
\* 50% of monthly salary" exactly when the score is above 10, and "Credit
\* score too low" otherwise.
C16_EmiRejects ==
    (IsDecision /\ EmisExceedHalfSalary) =>
      /\ ~resp.approved
      /\ resp.message =
           (IF RatLE(ScoreOfDecision, <<10, 1>>) THEN "Credit score too low"
            ELSE "EMIs exceed 50% of monthly salary")
      /\ RatEq(resp.installment,
               calculate_monthly_installment(resp.loan_amount, resp.rate, resp.tenure))

\* the new installment alone fits in half the salary; the active loans'
\* installments push the total over it
C16_Witness ==
    /\ IsDecision /\ EmisExceedHalfSalary
    /\ ActiveInstallments(resp.customer_id) > 0
    /\ RatLE(resp.installment, Rat(customers[resp.customer_id].monthly_salary, 2))
    /\ RatLT(<<0, 1>>, resp.installment)
    /\ resp.message = "EMIs exceed 50% of monthly salary"

\* C17: a customer with no loan history gets the rate max(requested, 12)
\* and is approved whenever the installment at that rate is at most half
\* the salary and the amount is at most the approved limit; the customer
\* registered with income 50,000 (limit 1,800,000) asking for 100,000 at
\* 10% over 12 months gets score 50, rate 12, installment 8,884.88 and
\* approval.
C17_NoHistoryApproval ==
    (IsDecision /\ \A l \in DOMAIN loans : loans[l].customer # resp.customer_id) =>
      LET c == customers[resp.customer_id]
          rate == IF resp.interest_rate >= 12 THEN resp.interest_rate ELSE 12
          inst == calculate_monthly_installment(resp.loan_amount, rate, resp.tenure)
      IN  /\ resp.rate = rate
          /\ RatEq(resp.installment, inst)
          /\ (RatLE(inst, Rat(c.monthly_salary, 2)) /\ resp.loan_amount <= c.approved_limit)
                => resp.approved
          /\ (/\ c.monthly_salary = 5000000 /\ c.approved_limit = 180000000
              /\ resp.loan_amount = 10000000 /\ resp.interest_rate = 10
              /\ resp.tenure = 12)
                => /\ ScoreOfDecision = <<50, 1>>
                   /\ resp.rate = 12
                   /\ resp.installment = <<888488, 1>>
                   /\ resp.approved

\* scenario A: the customer registered with income 50,000 has been approved
C17_Witness ==
    /\ IsDecision
    /\ customers[resp.customer_id].monthly_salary = 5000000
    /\ customers[resp.customer_id].approved_limit = 180000000
    /\ resp.loan_amount = 10000000 /\ resp.interest_rate = 10 /\ resp.tenure = 12
    /\ resp.approved

\* every loan of the customer of the decision has all its EMIs paid on time
FullyOnTime ==
    /\ \E l \in DOMAIN loans : loans[l].customer = resp.customer_id
    /\ \A l \in DOMAIN loans :
          loans[l].customer = resp.customer_id => loans[l].emis_paid_on_time = loans[l].tenure

\* C18 as stated: for a customer with a score above 50 the corrected rate
\* of the eligibility check is never higher than the requested rate.
C18_Original ==
    (IsDecision /\ RatLT(<<50, 1>>, ScoreOfDecision)) =>
      resp.rate <= resp.interest_rate

\* C18 amended: for a customer with a score above 50 the corrected rate is
\* the requested rate when that is at least 8, and 8 (higher than
\* requested) when it is below 8.
C18_GoodScoreRate ==
    (IsDecision /\ RatLT(<<50, 1>>, ScoreOfDecision)) =>
      resp.rate = (IF resp.interest_rate >= 8 THEN resp.interest_rate ELSE 8)

\* a customer with a fully on-time history and a score above 50 keeps the
\* requested rate 10
C18_Witness ==
    /\ IsDecision /\ FullyOnTime
    /\ RatLT(<<50, 1>>, ScoreOfDecision)
    /\ resp.interest_rate = 10 /\ resp.rate = 10

PureOps == {"calculate_credit_score", "get_corrected_interest_rate",
            "calculate_monthly_installment", "check_loan_eligibility",
            "check_eligibility"}

\* the arguments of a recorded call
CallArgs(r) ==
    CASE r.op = "calculate_credit_score" -> <<r.customer_id>>
      [] r.op \in {"check_loan_eligibility", "check_eligibility"} ->
           <<r.customer_id, r.loan_amount, r.interest_rate, r.tenure>>
      [] r.op = "get_corrected_interest_rate" -> <<r.score, r.requested_rate>>
      [] r.op = "calculate_monthly_installment" ->
           <<r.principal, r.annual_interest_rate, r.tenure_months>>
      [] OTHER -> <<>>

\* a recorded call without the date it was served on
Undated(r) == IF "date" \in DOMAIN r THEN [r EXCEPT !.date = 0] ELSE r

SameCall == resp.op = resp'.op /\ CallArgs(resp) = CallArgs(resp')

\* C20 as stated: the five read-only calls change no customer and no loan
\* (so never the approved limit), and two consecutive calls with identical
\* arguments and no data change in between return identical results.
C20_Original ==
    [][ resp'.op \in PureOps =>
          /\ customers' = customers
          /\ loans' = loans
          /\ SameCall => Undated(resp') = Undated(resp) ]_vars

\* C20 amended: the five read-only calls change no customer and no loan,
\* and two consecutive calls with identical arguments, no data change in
\* between and the same value of date.today() return identical results;
\* get_corrected_interest_rate and calculate_monthly_installment, which
\* read no date, do so on any two days.
C20_PureCalls ==
    [][ resp'.op \in PureOps =>
          /\ customers' = customers
          /\ loans' = loans
          /\ (SameCall /\ ("date" \in DOMAIN resp => resp.date = resp'.date))
                => Undated(resp') = Undated(resp) ]_vars

\* the endpoint has approved a request on the second day and the
\* customer's debt and limit are as registered
C20_Witness ==
    /\ resp.op = "check_eligibility" /\ resp.status = 200 /\ resp.approval
    /\ resp.date > FirstDay
    /\ customers[resp.customer_id] = Customer(100, 50, 0)
    /\ \E l \in DOMAIN loans : loans[l].customer = resp.customer_id

\* C24: the result of calculate_monthly_installment has exactly 2 fractional
\* digits (a whole number of cents) on every path: the amortizing path, the
\* zero-rate path and the zero-denominator fallback.
C24_TwoFractionalDigits ==
    resp.op = "calculate_monthly_installment" => resp.installment[2] = 1

\* C25: for every principal P > 0, rate R >= 0 and tenure T >= 1 the total
\* repaid, calculate_monthly_installment(P, R, T) x T, is at least P.
C25_RepaysPrincipal ==
    (resp.op = "calculate_monthly_installment" /\ resp.principal > 0)
        => RatLE(RatInt(resp.principal),
                 RatMul(resp.installment, RatInt(resp.tenure_months)))

\* the three tasks of one ingest_data run have finished
AllTasksDone == \A t \in Tasks : pc[t] = "done"

\* ids the customer sheet of the run names
SheetCustomers ==
    {req["ingest_customer_data"].sheet[i].customer_id :
        i \in DOMAIN req["ingest_customer_data"].sheet} \ {NoId}

\* what the customer still owes on the loans active today, never below 0
OwedOnActiveLoans(cid) ==
    Max(0, Outstanding(loans, {l \in DOMAIN loans :
                                 loans[l].customer = cid /\ today <= loans[l].end_date}))

\* C30: in every order and interleaving of the three queued tasks, once all
\* three have finished every loan row whose customer appears in the customer
\* sheet is stored and each customer's current_debt reflects that customer's
\* ingested active loans.
C30_AnyTaskOrder ==
    AllTasksDone =>
        /\ \A i \in DOMAIN req["ingest_loan_data"].sheet :
              LET row == req["ingest_loan_data"].sheet[i]
              IN  row.loan.customer \in SheetCustomers
                      => row.loan_id \in DOMAIN loans
        /\ \A cid \in DOMAIN customers :
              customers[cid].current_debt = OwedOnActiveLoans(cid)

\* C21: in every reachable state, after any sequence of registration, loan
\* creation, debt recomputation and customer/loan ingestion, every stored
\* loan has emis_paid_on_time <= tenure.
C21_EmisWithinTenure ==
    \A l \in DOMAIN loans : loans[l].emis_paid_on_time <= loans[l].tenure

\* C22: every stored loan references an existing customer; ingest_loan_data
\* stores a row only when the row's customer exists and passes over every
\* row whose customer is missing without aborting the run, so that the rows
\* of existing customers are stored all the same.
C22_LoansHaveCustomers ==
    /\ \A l \in DOMAIN loans : loans[l].customer \in DOMAIN customers
    /\ resp.op = "ingest_loan_data" =>
          \A i \in DOMAIN req["ingest_loan_data"].sheet :
              LET row == req["ingest_loan_data"].sheet[i]
              IN  IF row.loan.customer \in DOMAIN customers
                  THEN row.loan_id \in DOMAIN loans /\ loans[row.loan_id] = row.loan
                  ELSE row.loan_id \notin DOMAIN loans

\* a loan ingestion has passed over a row of a missing customer and stored
\* a later row
C22_Witness ==
    /\ resp.op = "ingest_loan_data"
    /\ \E i, j \in DOMAIN req["ingest_loan_data"].sheet :
          /\ i < j
          /\ req["ingest_loan_data"].sheet[i].loan.customer \notin DOMAIN customers
          /\ req["ingest_loan_data"].sheet[j].loan_id \in DOMAIN loans

\* C23: a customer's current_debt is never negative: it is 0 at
\* registration, create_loan only adds a non-negative principal, and
\* calculate_current_debt sets it to max(0, sum over the customer's active
\* loans of (loan_amount - emis_paid_on_time x monthly_repayment)).
C23_DebtNonNegative ==
    /\ \A cid \in DOMAIN customers : customers[cid].current_debt >= 0
    /\ (resp.op = "register_customer" /\ resp.status = 201)
          => customers[resp.customer_id].current_debt = 0
    /\ (resp.op = "create_loan" /\ resp.loan_approved) => resp.loan_amount >= 0
    /\ (resp.op = "calculate_current_debt" /\ "customer_id" \in DOMAIN resp)
          => customers[resp.customer_id].current_debt
                 = OwedOnActiveLoans(resp.customer_id)

\* the debt of a customer whose active loans sum to less than nothing has
\* been recomputed
C23_Witness ==
    /\ resp.op = "calculate_current_debt"
    /\ "customer_id" \in DOMAIN resp
    /\ Outstanding(loans, ActiveLoansOf(loans, resp.customer_id, today)) < 0
    /\ customers[resp.customer_id].current_debt = 0

\* the stored customer carries the fields of the sheet row
CarriesRow(customer, row) ==
    /\ PhoneOf(customer) = row.phone_number
    /\ customer.monthly_salary = row.monthly_salary
    /\ customer.approved_limit = row.approved_limit

\* the last row of the customer sheet with the id
LastRow(id) ==
    LET sheet == req["ingest_customer_data"].sheet
        i == CHOOSE k \in DOMAIN sheet :
                 /\ sheet[k].customer_id = id
                 /\ \A j \in DOMAIN sheet : j > k => sheet[j].customer_id # id
    IN  sheet[i]

\* C26 as stated: after ingest_customer_data runs on a sheet, for every data
\* row with a customer id there is a customer with that id carrying the
\* row's fields, and a customer that existed keeps its current_debt.
C26_Original ==
    [][resp'.op = "ingest_customer_data" =>
          \A i \in DOMAIN req["ingest_customer_data"].sheet :
              LET row == req["ingest_customer_data"].sheet[i]
              IN  row.customer_id # NoId =>
                      /\ row.customer_id \in DOMAIN customers'
                      /\ CarriesRow(customers'[row.customer_id], row)
                      /\ row.customer_id \in DOMAIN customers =>
                             customers'[row.customer_id].current_debt
                                 = customers[row.customer_id].current_debt]_vars

\* C26 (amended): a run of ingest_customer_data that reaches a row whose
\* phone number another customer holds stores nothing; every other run
\* leaves, for every id the sheet names, one customer with that id carrying
\* the fields of the last row with the id, with the current_debt it had (0
\* if it is new), leaves every other customer alone, and a second run on
\* the same sheet would change nothing.
C26_IngestCustomers ==
    [][resp'.op = "ingest_customer_data" =>
          IF ~resp'.ok THEN customers' = customers
          ELSE /\ DOMAIN customers' = DOMAIN customers \cup SheetCustomers
               /\ \A id \in SheetCustomers :
                     /\ CarriesRow(customers'[id], LastRow(id))
                     /\ customers'[id].current_debt =
                           IF id \in DOMAIN customers
                           THEN customers[id].current_debt ELSE 0
               /\ \A id \in DOMAIN customers \ SheetCustomers :
                     customers'[id] = customers[id]
               /\ LET again == IngestCustomerRows(customers',
                                    req["ingest_customer_data"].sheet, 1)
                  IN  again.ok => again.customers = customers']_vars

\* a customer in debt has been updated in place by the ingestion
C26_Witness ==
    /\ resp.op = "ingest_customer_data"
    /\ resp.ok
    /\ \E id \in SheetCustomers : customers[id].current_debt > 0

\* 15/10/5/0 points for a count <= a, <= b, <= c, more
CountPoints(n, a, b, c) ==
    IF n <= a THEN 15 ELSE IF n <= b THEN 10 ELSE IF n <= c THEN 5 ELSE 0

\* the four components of the score of a customer, summed and clamped
ComponentScore(cid) ==
    LET mine == {l \in DOMAIN loans : loans[l].customer = cid}
        emis == SumField(loans, mine, "emis_paid_on_time")
        tenure == SumField(loans, mine, "tenure")
        principal == SumField(loans, mine, "loan_amount")
        limit == customers[cid].approved_limit
        thisYear == {l \in mine : loans[l].start_date \div 12 = today \div 12}
        onTime == IF tenure = 0 THEN <<0, 1>>
                  ELSE RatMin(<<35, 1>>, Rat(35 * emis, tenure))
        volume == IF limit = 0 THEN <<0, 1>>
                  ELSE RatMax(<<0, 1>>,
                           RatSub(<<35, 1>>,
                               RatMul(<<35, 1>>, RatMin(<<1, 1>>, Rat(principal, limit)))))
        sum == RatAdd(RatAdd(onTime, volume),
                      <<CountPoints(Cardinality(mine), 2, 5, 10)
                            + CountPoints(Cardinality(thisYear), 2, 4, 6), 1>>)
    IN  RatMin(<<100, 1>>, RatMax(<<0, 1>>, sum))

\* C27: for a customer with at least one loan who is not overexposed, the
\* score is the sum, clamped to [0, 100], of the on-time component
\* min(35, 35 x emis / tenure) (0 if the total tenure is 0), the loan-count
\* points 15/10/5/0 for <= 2, <= 5, <= 10, more, the current-year points
\* 15/10/5/0 for <= 2, <= 4, <= 6, more, and the volume component
\* max(0, 35 - 35 x min(1, principal / limit)) (0 if the limit is 0).
C27_ScoreComponents ==
    (/\ IsScore
     /\ LoansOf(loans, resp.customer_id) # {}
     /\ ActivePrincipal(resp.customer_id) <= customers[resp.customer_id].approved_limit)
        => RatEq(resp.score, ComponentScore(resp.customer_id))

\* a score of a customer with exactly 10 loans, 6 of them of this year
C27_Witness ==
    /\ IsScore
    /\ Cardinality(LoansOf(loans, resp.customer_id)) = 10
    /\ Cardinality({l \in LoansOf(loans, resp.customer_id) :
                       loans[l].start_date \div 12 = today \div 12}) = 6
    /\ ActivePrincipal(resp.customer_id) <= customers[resp.customer_id].approved_limit
    /\ RatEq(resp.score, ComponentScore(resp.customer_id))

\* the loans of the customer with today <= end_date
LoansActiveToday(cid) ==
    {l \in DOMAIN loans : loans[l].customer = cid /\ today <= loans[l].end_date}

\* the score when the overexposure gate reads the loans active today and
\* the components read every loan
ScoreOverActive(cid) ==
    IF ActivePrincipal(cid) > customers[cid].approved_limit THEN <<0, 1>>
    ELSE IF LoansOf(loans, cid) = {} THEN <<50, 1>>
    ELSE ComponentScore(cid)

\* C28: a loan counts as active exactly when today <= end_date, in the
\* overexposure sum of the score, in the installment sum of the eligibility
\* check, in calculate_current_debt and in view_customer_loans; a loan that
\* ended before today is in none of them but still counts in the score's
\* history components.
C28_ActiveUntilEndDate ==
    /\ IsScore => RatEq(resp.score, ScoreOverActive(resp.customer_id))
    /\ IsDecision =>
          (resp.message = "EMIs exceed 50% of monthly salary"
              <=> (/\ RatLT(<<10, 1>>, ScoreOverActive(resp.customer_id))
                   /\ EmisExceedHalfSalary))
    /\ (resp.op = "calculate_current_debt" /\ "customer_id" \in DOMAIN resp)
          => customers[resp.customer_id].current_debt
                 = Max(0, Outstanding(loans, LoansActiveToday(resp.customer_id)))
    /\ (resp.op = "view_customer_loans" /\ resp.status = 200)
          => {item.loan_id : item \in resp.loans} = LoansActiveToday(resp.customer_id)

\* the list of a customer with a loan that ended yesterday and a loan that
\* ends today holds the second and not the first
C28_Witness ==
    /\ resp.op = "view_customer_loans"
    /\ resp.status = 200
    /\ \E item \in resp.loans : loans[item.loan_id].end_date = today
    /\ \E l \in LoansOf(loans, resp.customer_id) :
          /\ loans[l].end_date = today - 1
          /\ \A item \in resp.loans : item.loan_id # l

============================================================================
